---- MODULE Spec2Model ----
(***************************************************************************)
(* A model of the sprite-group renderer of src/src/sprite.rs               *)
(* (SpriteRender and SpriteGroup): the CPU mirrors, the GPU buffers the    *)
(* mirrors are pushed to through queue.write_buffer, and the command       *)
(* stream render records into a render pass; and of the frame loop of      *)
(* src/src/engine.rs (Engine::run) that drives the renderer: game.init,    *)
(* the events of the loop and the statements of the RedrawRequested arm.   *)
(*                                                                         *)
(* Spec is the renderer under an arbitrary caller; EngineSpec is the       *)
(* renderer under the engine, its calls made by game.init and game.update. *)
(*                                                                         *)
(* f32 values are modelled by the small non-negative integers they hold    *)
(* exactly; a buffer is a sequence of bytes and bytemuck's casts are the   *)
(* little-endian IEEE-754 byte images of the records.                      *)
(***************************************************************************)
EXTENDS Integers, Sequences, FiniteSets, TLC

VARIABLES
    groups,   \* SpriteRender.groups: the registry, a sequence of SpriteGroup
    last,     \* the call that has just ended, its arguments and outcome, until
              \* the caller goes on (NoCall between calls)
    writes,   \* the queue.write_buffer calls that call made, in order
    rpass,    \* the commands that call recorded into the caller's render pass
    synced,   \* synced[h][i]: sprite i of group h was pushed after its last edit
    engine    \* Engine::run: where the frame loop stands, the queue and the frame

vars == <<groups, last, writes, rpass, synced, engine>>

\* the state of the renderer
sprites_vars == <<groups, last, writes, rpass, synced>>

----------------------------------------------------------------------------
(* Bounds of the model *)

\* the most groups a caller registers
MaxGroups == 3

\* the most sprites a caller registers in one group
MaxSprites == 5

\* platform_move is explored while sheet_region[0] stays within this value
MaxSheetU == 32

\* the most renderer calls game.update makes in one frame
MaxUpdateCalls == 2

----------------------------------------------------------------------------
(* Record layouts *)

\* size_of::<GPUSprite>(): two [f32; 4]
SpriteSize == 32

\* size_of::<GPUCamera>(): two [f32; 2]
CameraSize == 16

\* wgpu::COPY_BUFFER_ALIGNMENT, which write_buffer offsets and sizes obey
CopyBufferAlignment == 4

\* the vertex count of one quad in the draw call
QuadVertices == 6

RECURSIVE Log2Floor(_)
Log2Floor(n) == IF n < 2 THEN 0 ELSE 1 + Log2Floor(n \div 2)

\* The IEEE-754 binary32 bit pattern of the non-negative integer k < 2^24
F32Bits(k) ==
    IF k = 0 THEN 0
    ELSE LET e == Log2Floor(k)
         IN  (127 + e) * (2 ^ 23) + (k - 2 ^ e) * (2 ^ (23 - e))

\* The four little-endian bytes of the f32 holding k
ToLeBytes(k) ==
    LET b == F32Bits(k)
    IN  << b % 256, (b \div 256) % 256, (b \div 65536) % 256, (b \div 16777216) % 256 >>

\* the f32 values the model's sprites and cameras take
Floats == 0..1024

\* ToLeBytes, tabulated over Floats
F32Table == [k \in Floats |-> ToLeBytes(k)]

F32Bytes(k) == F32Table[k]

RECURSIVE FloatsBytes(_)
FloatsBytes(fs) ==
    IF fs = << >> THEN << >> ELSE F32Bytes(Head(fs)) \o FloatsBytes(Tail(fs))

\* bytemuck::bytes_of(&GPUSprite): screen_region then sheet_region (repr(C))
SpriteBytes(sp) == FloatsBytes(sp.screen_region \o sp.sheet_region)

\* bytemuck::bytes_of(&GPUCamera): screen_pos then screen_size (repr(C))
CameraBytes(c) == FloatsBytes(c.screen_pos \o c.screen_size)

\* bytemuck::cast_slice(&[GPUSprite]): the records' bytes back to back
RECURSIVE CastSlice(_)
CastSlice(sps) ==
    IF sps = << >> THEN << >> ELSE SpriteBytes(Head(sps)) \o CastSlice(Tail(sps))

----------------------------------------------------------------------------
(* The GPU queue *)

\* device.create_buffer: a zero-initialised buffer of the given size
CreateBuffer(size) == [i \in 1..size |-> 0]

\* queue.write_buffer validation: empty data is accepted as a no-op, any
\* other write needs an aligned offset and size and must fit the buffer.
\* A rejected write changes no buffer; the error reaches wgpu's default
\* uncaptured-error handler, which panics (no error scope is pushed anywhere
\* in the repository).
WriteAccepted(buf, offset, data) ==
    \/ Len(data) = 0
    \/ /\ offset % CopyBufferAlignment = 0
       /\ Len(data) % CopyBufferAlignment = 0
       /\ offset + Len(data) <= Len(buf)

\* queue.write_buffer: data lands at byte offset `offset` (0-based)
WriteBuffer(buf, offset, data) ==
    [i \in 1..Len(buf) |->
        IF i > offset /\ i <= offset + Len(data) THEN data[i - offset] ELSE buf[i]]

----------------------------------------------------------------------------
(* Inputs of the calls *)

\* the sprite sequences a caller registers: n distinct sprites in a row
InitialSprite(i) ==
    [screen_region |-> <<32 * i, 32, 64, 64>>, sheet_region |-> <<0, 0, 1, 1>>]

InitialSprites(n) == [i \in 1..n |-> InitialSprite(i)]

\* the screen regions a caller moves a sprite to
Regions == { <<128, 128, 64, 64>> }

\* the values a caller stores through a mutable sprite reference
EditSprites == { [screen_region |-> r, sheet_region |-> <<0, 0, 1, 1>>] : r \in Regions }

Cameras ==
    { [screen_pos |-> <<0, 0>>, screen_size |-> <<1024, 768>>],
      [screen_pos |-> <<32, 0>>, screen_size |-> <<1024, 768>>] }

Textures == { "king" }

NoCamera == [screen_pos |-> <<0, 0>>, screen_size |-> <<0, 0>>]

\* a call record: the operation, its arguments and how it ended
Call(op, which, lo, hi, sprites, camera, outcome) ==
    [op |-> op, which |-> which, lo |-> lo, hi |-> hi,
     sprites |-> sprites, camera |-> camera, outcome |-> outcome]

\* between two calls
NoCall == Call("none", 0, 0, 0, << >>, NoCamera, "ok")

\* the caller is about to make a call
Running == last = NoCall

----------------------------------------------------------------------------
(* State after SpriteRender::new *)

\* no submission has been made in the frame
NoSubmission == [writes |-> << >>, commands |-> << >>]

\* the frame loop of an engine in the given phase, before its first event
\* the sizes a window takes, as PhysicalSize { width, height }
WindowSizes == { << 800, 600 >>, << 1024, 768 >> }

\* window.inner_size() when WGPU::new configures the surface
InitialSize == << 1024, 768 >>

NoSize == << 0, 0 >>

\* an event handed to the closure of event_loop.run
EventOf(kind, size) == [kind |-> kind, size |-> size]

NoEvent == EventOf("none", NoSize)

EngineIn(phase) ==
    [ phase            |-> phase,     \* "off", "init", "loop", "exited", "panicked"
      pc               |-> 0,         \* the next statement of the RedrawRequested arm
      calls            |-> 0,         \* renderer calls game.update made this frame
      control_flow     |-> "Poll",
      event            |-> NoEvent,   \* the event the closure was last called with
      flows            |-> << >>,     \* the values it assigned to *control_flow, in order
      surface          |-> InitialSize,  \* the size the surface is configured to
      redraw_requested |-> FALSE,
      trace            |-> << >>,     \* the statements of the frame that have run
      pending          |-> << >>,     \* buffer writes staged on the queue
      update_writes    |-> << >>,     \* the writes game.update staged this frame
      pass             |-> << >>,     \* the commands in the frame's render pass
      submitted        |-> NoSubmission ]

\* the renderer as SpriteRender::new leaves it
NewSpriteRender ==
    /\ groups = << >>
    /\ last = Call("new", 0, 0, 0, << >>, NoCamera, "ok")
    /\ writes = << >>
    /\ rpass = << >>
    /\ synced = << >>

\* a renderer of its own, with no engine around it
Init ==
    /\ NewSpriteRender
    /\ engine = EngineIn("off")

----------------------------------------------------------------------------
(* SpriteRender::add_sprite_group *)

\* add_sprite_group sizing the sprite buffer by the sprite count, not the
\* byte count: `size: sprites.len() as u64`
NewSpriteGroupCountSized(id, tex, sprites, camera) ==
    [ sprite_buffer     |-> WriteBuffer(CreateBuffer(Len(sprites)), 0, CastSlice(sprites)),
      sprites           |-> sprites,
      tex_bind_group    |-> [id |-> id, texture |-> tex],
      sprite_bind_group |-> [id |-> id],
      camera            |-> camera,
      buffer_camera     |-> WriteBuffer(CreateBuffer(CameraSize), 0, CameraBytes(camera)) ]

\* add_sprite_group without the initial upload of the camera
NewSpriteGroupCameraUnwritten(id, tex, sprites, camera) ==
    [ sprite_buffer     |-> WriteBuffer(CreateBuffer(Len(CastSlice(sprites))), 0,
                                        CastSlice(sprites)),
      sprites           |-> sprites,
      tex_bind_group    |-> [id |-> id, texture |-> tex],
      sprite_bind_group |-> [id |-> id],
      camera            |-> camera,
      buffer_camera     |-> CreateBuffer(CameraSize) ]

\* add_sprite_group without the initial upload of the sprites
NewSpriteGroupUnwritten(id, tex, sprites, camera) ==
    [ sprite_buffer     |-> CreateBuffer(Len(CastSlice(sprites))),
      sprites           |-> sprites,
      tex_bind_group    |-> [id |-> id, texture |-> tex],
      sprite_bind_group |-> [id |-> id],
      camera            |-> camera,
      buffer_camera     |-> WriteBuffer(CreateBuffer(CameraSize), 0, CameraBytes(camera)) ]

\* add_sprite_group keeping the sprites in reverse order
NewSpriteGroupReversed(id, tex, sprites, camera) ==
    LET reversed == [i \in 1..Len(sprites) |-> sprites[Len(sprites) + 1 - i]]
    IN  [ sprite_buffer     |-> WriteBuffer(CreateBuffer(Len(CastSlice(sprites))), 0,
                                            CastSlice(reversed)),
          sprites           |-> reversed,
          tex_bind_group    |-> [id |-> id, texture |-> tex],
          sprite_bind_group |-> [id |-> id],
          camera            |-> camera,
          buffer_camera     |-> WriteBuffer(CreateBuffer(CameraSize), 0, CameraBytes(camera)) ]

\* the aggregate pushed onto the registry; `id` names the GPU objects
\* (buffers and bind groups) created by this call
NewSpriteGroup(id, tex, sprites, camera) ==
    LET buffer_sprite == CreateBuffer(Len(CastSlice(sprites)))
        buffer_camera == CreateBuffer(CameraSize)
    IN  [ sprite_buffer     |-> WriteBuffer(buffer_sprite, 0, CastSlice(sprites)),
          sprites           |-> sprites,
          tex_bind_group    |-> [id |-> id, texture |-> tex],
          sprite_bind_group |-> [id |-> id],
          camera            |-> camera,
          buffer_camera     |-> WriteBuffer(buffer_camera, 0, CameraBytes(camera)) ]

\* the two initial uploads, in the order the call enqueues them
NewSpriteGroupWrites(id, sprites, camera) ==
    << [buffer |-> <<"sprite", id>>, offset |-> 0, data |-> CastSlice(sprites)],
       [buffer |-> <<"camera", id>>, offset |-> 0, data |-> CameraBytes(camera)] >>

\* the steps of add_sprite_group with the push onto the registry ahead of the
\* two initial uploads
AddStepsPushBeforeWrites ==
    << "create_view", "create_sampler", "create_bind_group(tex)",
       "create_buffer(sprite)", "create_buffer(camera)", "create_bind_group(sprite)",
       "push", "write_buffer(sprite)", "write_buffer(camera)" >>

\* the statements of add_sprite_group, in the order of the source
AddSteps ==
    << "create_view", "create_sampler", "create_bind_group(tex)",
       "create_buffer(sprite)", "create_buffer(camera)", "create_bind_group(sprite)",
       "write_buffer(sprite)", "write_buffer(camera)", "push" >>

\* the steps that go through the device or the queue: a failure in one of
\* them reaches wgpu's uncaptured-error handler, which panics
FallibleSteps == { AddSteps[k] : k \in 1..Len(AddSteps) } \ { "push" }

\* add_sprite_group registering the new group ahead of the others:
\* `self.groups.insert(0, ...)`
AddStepInsertFirst(step, st, group, uploads) ==
    IF step = "write_buffer(sprite)" THEN [st EXCEPT !.writes = Append(@, uploads[1])]
    ELSE IF step = "write_buffer(camera)" THEN [st EXCEPT !.writes = Append(@, uploads[2])]
    ELSE IF step = "push" THEN [st EXCEPT !.groups = <<group>> \o @]
    ELSE st

\* one statement of add_sprite_group on st = [groups, writes]; group and
\* uploads are the aggregate and the two writes the call builds
AddStep(step, st, group, uploads) ==
    IF step = "write_buffer(sprite)" THEN [st EXCEPT !.writes = Append(@, uploads[1])]
    ELSE IF step = "write_buffer(camera)" THEN [st EXCEPT !.writes = Append(@, uploads[2])]
    ELSE IF step = "push" THEN [st EXCEPT !.groups = Append(@, group)]
    ELSE st

\* wgpu rejects a bind group whose buffer binding has size zero: the sprite
\* layout sets min_binding_size: None, so the size of the binding, here
\* that of the entire sprite buffer, is checked to be non-zero when the bind
\* group is created
ZeroSizedBinding(step, group) ==
    /\ step = "create_bind_group(sprite)"
    /\ Len(group.sprite_buffer) = 0

\* the statements `steps` one after the other, up to the one that fails
RECURSIVE RunAddSteps(_, _, _, _, _)
RunAddSteps(steps, failing, st, group, uploads) ==
    IF steps = << >> THEN [groups |-> st.groups, writes |-> st.writes, outcome |-> "ok"]
    ELSE IF Head(steps) = failing \/ ZeroSizedBinding(Head(steps), group)
         THEN [groups |-> st.groups, writes |-> st.writes, outcome |-> "panic"]
         ELSE RunAddSteps(Tail(steps), failing,
                          AddStep(Head(steps), st, group, uploads), group, uploads)

\* the values a call hands back: `()` and a usize
Unit == [type |-> "()"]

Handle(n) == [type |-> "usize", value |-> n]

\* what add_sprite_group returns on a registry that held n groups: the
\* function declares no return type, and the expression that would be its
\* value, `self.groups.len() - 1`, is commented out
AddSpriteGroupResult(n) == Unit

\* add_sprite_group in which the step `failing` fails ("none": no step does)
AddSpriteGroup(tex, sprites, camera, failing) ==
    /\ Running
    /\ Len(groups) < MaxGroups
    /\ LET st == RunAddSteps(AddSteps, failing, [groups |-> groups, writes |-> << >>],
                             NewSpriteGroup(Len(groups), tex, sprites, camera),
                             NewSpriteGroupWrites(Len(groups), sprites, camera))
       IN  /\ groups' = st.groups
           /\ writes' = st.writes
           /\ synced' = IF Len(st.groups) > Len(groups)
                        THEN Append(synced, [i \in 1..Len(sprites) |-> TRUE])
                        ELSE synced
           /\ last' = Call("add_sprite_group", Len(groups), 0, 0, sprites, camera, st.outcome)
                        @@ [result |-> AddSpriteGroupResult(Len(groups)),
                            failing |-> failing]
    /\ rpass' = << >>

----------------------------------------------------------------------------
(* SpriteRender::set_camera and set_camera_all *)

\* a call that panicked: nothing is written, and the thread unwinds for good
Panic(call) ==
    /\ last' = call
    /\ writes' = << >>
    /\ rpass' = << >>
    /\ UNCHANGED <<groups, synced>>

\* set_camera that pushes the camera without storing it in the group
SetCameraOnGpuOnly(st, index, camera) ==
    LET sg == st.groups[index + 1]
        buf == WriteBuffer(sg.buffer_camera, 0, CameraBytes(camera))
    IN  [ groups |-> [st.groups EXCEPT ![index + 1] = [sg EXCEPT !.buffer_camera = buf]],
          writes |-> Append(st.writes,
                            [buffer |-> <<"camera", sg.sprite_bind_group.id>>,
                             offset |-> 0, data |-> CameraBytes(camera)]) ]

\* set_camera that pushes the group's camera before storing the new one
SetCameraOnStale(st, index, camera) ==
    LET sg == st.groups[index + 1]
        buf == WriteBuffer(sg.buffer_camera, 0, CameraBytes(sg.camera))
    IN  [ groups |-> [st.groups EXCEPT ![index + 1] =
                          [sg EXCEPT !.camera = camera, !.buffer_camera = buf]],
          writes |-> Append(st.writes,
                            [buffer |-> <<"camera", sg.sprite_bind_group.id>>,
                             offset |-> 0, data |-> CameraBytes(sg.camera)]) ]

\* set_camera on a renderer-and-queue pair st = [groups, writes], index in range
SetCameraOn(st, index, camera) ==
    LET sg == st.groups[index + 1]
        buf == WriteBuffer(sg.buffer_camera, 0, CameraBytes(camera))
    IN  [ groups |-> [st.groups EXCEPT ![index + 1] =
                          [sg EXCEPT !.camera = camera, !.buffer_camera = buf]],
          writes |-> Append(st.writes,
                            [buffer |-> <<"camera", sg.sprite_bind_group.id>>,
                             offset |-> 0, data |-> CameraBytes(camera)]) ]

\* set_camera on a renderer whose groups all bind one camera buffer
SetCameraShared(index, camera) ==
    /\ Running
    /\ IF index >= Len(groups)
       THEN Panic(Call("set_camera", index, 0, 0, << >>, camera, "panic"))
       ELSE /\ groups' = [h \in 1..Len(groups) |->
                             [groups[h] EXCEPT
                                 !.camera = IF h = index + 1 THEN camera ELSE @,
                                 !.buffer_camera = WriteBuffer(@, 0, CameraBytes(camera))]]
            /\ writes' = << [buffer |-> <<"camera", 0>>, offset |-> 0,
                             data |-> CameraBytes(camera)] >>
            /\ last' = Call("set_camera", index, 0, 0, << >>, camera, "ok")
            /\ rpass' = << >>
            /\ UNCHANGED synced

SetCamera(index, camera) ==
    /\ Running
    /\ IF index >= Len(groups)
       THEN Panic(Call("set_camera", index, 0, 0, << >>, camera, "panic"))
       ELSE LET st == SetCameraOn([groups |-> groups, writes |-> << >>], index, camera)
            IN  /\ groups' = st.groups
                /\ writes' = st.writes
                /\ last' = Call("set_camera", index, 0, 0, << >>, camera, "ok")
                /\ rpass' = << >>
                /\ UNCHANGED synced

\* the loop stopping one group early: `0..self.groups.len() - 1`
RECURSIVE SetCameraAllButLast(_, _, _)
SetCameraAllButLast(st, sg_index, camera) ==
    IF sg_index + 1 >= Len(st.groups) THEN st
    ELSE SetCameraAllButLast(SetCameraOn(st, sg_index, camera), sg_index + 1, camera)

\* the loop `for sg_index in 0..self.groups.len()` from sg_index on
RECURSIVE SetCameraAllFrom(_, _, _)
SetCameraAllFrom(st, sg_index, camera) ==
    IF sg_index >= Len(st.groups) THEN st
    ELSE SetCameraAllFrom(SetCameraOn(st, sg_index, camera), sg_index + 1, camera)

\* the loop running one index too far, `0..=self.groups.len()`: every group
\* gets the camera and the last call indexes past the registry
SetCameraAllInclusive(camera) ==
    /\ Running
    /\ LET st == SetCameraAllFrom([groups |-> groups, writes |-> << >>], 0, camera)
       IN  /\ groups' = st.groups
           /\ writes' = st.writes
    /\ last' = Call("set_camera_all", 0, 0, 0, << >>, camera, "panic")
    /\ rpass' = << >>
    /\ UNCHANGED synced

SetCameraAll(camera) ==
    /\ Running
    /\ LET st == SetCameraAllFrom([groups |-> groups, writes |-> << >>], 0, camera)
       IN  /\ groups' = st.groups
           /\ writes' = st.writes
    /\ last' = Call("set_camera_all", 0, 0, 0, << >>, camera, "ok")
    /\ rpass' = << >>
    /\ UNCHANGED synced

----------------------------------------------------------------------------
(* SpriteRender::refresh_sprites *)

\* &self.groups[which].sprites[range] exists
SliceInRange(which, lo, hi) ==
    /\ which < Len(groups)
    /\ lo <= hi
    /\ hi <= Len(groups[which + 1].sprites)

\* an offset that steps by twice the size of a record
RefreshOffsetDoubled(lo) == lo * 2 * SpriteSize

\* the byte offset the call passes to write_buffer
RefreshOffset(lo) == lo

\* the slice of the call ending one sprite early
RefreshDataButLast(which, lo, hi) ==
    CastSlice(SubSeq(groups[which + 1].sprites, lo + 1, hi - 1))

\* the bytes the call passes to write_buffer
RefreshData(which, lo, hi) ==
    CastSlice(SubSeq(groups[which + 1].sprites, lo + 1, hi))

\* refresh_sprites clamping the range to the group instead of failing:
\* `&sprites[range.start.min(len)..range.end.min(len)]`
RefreshSpritesClamped(which, lo, hi) ==
    /\ Running
    /\ IF which >= Len(groups)
       THEN Panic(Call("refresh_sprites", which, lo, hi, << >>, NoCamera, "panic"))
       ELSE LET sg == groups[which + 1]
                end == IF hi <= Len(sg.sprites) THEN hi ELSE Len(sg.sprites)
                start == IF lo <= end THEN lo ELSE end
                data == CastSlice(SubSeq(sg.sprites, start + 1, end))
            IN  IF ~WriteAccepted(sg.sprite_buffer, start, data)
                THEN Panic(Call("refresh_sprites", which, lo, hi, << >>, NoCamera, "panic"))
                ELSE /\ groups' = [groups EXCEPT ![which + 1].sprite_buffer =
                                       WriteBuffer(sg.sprite_buffer, start, data)]
                     /\ writes' = << [buffer |-> <<"sprite", sg.sprite_bind_group.id>>,
                                      offset |-> start, data |-> data] >>
                     /\ synced' = [synced EXCEPT ![which + 1] =
                                      [i \in 1..Len(sg.sprites) |->
                                          IF i > start /\ i <= end THEN TRUE ELSE @[i]]]
                     /\ last' = Call("refresh_sprites", which, lo, hi, << >>, NoCamera, "ok")
                     /\ rpass' = << >>

RefreshSprites(which, lo, hi) ==
    /\ Running
    /\ IF ~SliceInRange(which, lo, hi)
       THEN Panic(Call("refresh_sprites", which, lo, hi, << >>, NoCamera, "panic"))
       ELSE LET sg == groups[which + 1]
                offset == RefreshOffset(lo)
                data == RefreshData(which, lo, hi)
            IN  IF ~WriteAccepted(sg.sprite_buffer, offset, data)
                THEN Panic(Call("refresh_sprites", which, lo, hi, << >>, NoCamera, "panic"))
                ELSE /\ groups' = [groups EXCEPT ![which + 1].sprite_buffer =
                                       WriteBuffer(sg.sprite_buffer, offset, data)]
                     /\ writes' = << [buffer |-> <<"sprite", sg.sprite_bind_group.id>>,
                                      offset |-> offset, data |-> data] >>
                     /\ synced' = [synced EXCEPT ![which + 1] =
                                      [i \in 1..Len(sg.sprites) |->
                                          IF i > lo /\ i <= hi THEN TRUE ELSE @[i]]]
                     /\ last' = Call("refresh_sprites", which, lo, hi, << >>, NoCamera, "ok")
                     /\ rpass' = << >>

----------------------------------------------------------------------------
(* In-place edits of the CPU mirror *)

\* the sync marks of group `which` once its sprites have become `sprites`:
\* a sprite whose value changed is no longer in sync
Mutated(which, sprites) ==
    [synced EXCEPT ![which + 1] =
        [i \in 1..Len(sprites) |->
            IF sprites[i] # groups[which + 1].sprites[i] THEN FALSE ELSE @[i]]]

\* get_sprite_mut wrapping an index past the end around to the start:
\* `&mut sprites[index % len]`
GetSpriteMutWrapping(which, index, sprite) ==
    /\ Running
    /\ IF which >= Len(groups) \/ Len(groups[which + 1].sprites) = 0
       THEN Panic(Call("get_sprite_mut", which, index, 0, << >>, NoCamera, "panic"))
       ELSE /\ groups' = [groups EXCEPT ![which + 1].sprites[
                              (index % Len(groups[which + 1].sprites)) + 1] = sprite]
            /\ synced' = Mutated(which, groups'[which + 1].sprites)
            /\ last' = Call("get_sprite_mut", which, index, 0, <<sprite>>, NoCamera, "ok")
            /\ writes' = << >>
            /\ rpass' = << >>

\* get_sprite_mut(which, index) followed by a store of `sprite` through it
GetSpriteMut(which, index, sprite) ==
    /\ Running
    /\ IF which >= Len(groups) \/ index >= Len(groups[which + 1].sprites)
       THEN Panic(Call("get_sprite_mut", which, index, 0, << >>, NoCamera, "panic"))
       ELSE /\ groups' = [groups EXCEPT ![which + 1].sprites[index + 1] = sprite]
            /\ synced' = Mutated(which, groups'[which + 1].sprites)
            /\ last' = Call("get_sprite_mut", which, index, 0, <<sprite>>, NoCamera, "ok")
            /\ writes' = << >>
            /\ rpass' = << >>

\* get_all_sprites_mut(which) followed by a store of `sprite` to every element
GetAllSpritesMut(which, sprite) ==
    /\ Running
    /\ IF which >= Len(groups)
       THEN Panic(Call("get_all_sprites_mut", which, 0, 0, << >>, NoCamera, "panic"))
       ELSE /\ groups' = [groups EXCEPT ![which + 1].sprites =
                              [i \in 1..Len(@) |-> sprite]]
            /\ synced' = Mutated(which, groups'[which + 1].sprites)
            /\ last' = Call("get_all_sprites_mut", which, 0, 0, <<sprite>>, NoCamera, "ok")
            /\ writes' = << >>
            /\ rpass' = << >>

\* update_position that pushes the moved sprite to the GPU on its own
UpdatePositionPushing(newRegion, sprite) ==
    /\ Running
    /\ IF sprite >= Len(groups) \/ 0 >= Len(groups[sprite + 1].sprites)
       THEN Panic(Call("update_position", sprite, 0, 0, << >>, NoCamera, "panic"))
       ELSE LET moved == [groups[sprite + 1].sprites[1] EXCEPT !.screen_region = newRegion]
            IN  /\ groups' = [groups EXCEPT
                                 ![sprite + 1].sprites[1] = moved,
                                 ![sprite + 1].sprite_buffer =
                                     WriteBuffer(@, 0, SpriteBytes(moved))]
                /\ synced' = [synced EXCEPT ![sprite + 1][1] = TRUE]
                /\ last' = Call("update_position", sprite, 0, 0, << >>, NoCamera, "ok")
                /\ writes' = << [buffer |-> <<"sprite", sprite>>, offset |-> 0,
                                 data |-> SpriteBytes(moved)] >>
                /\ rpass' = << >>

UpdatePosition(newRegion, sprite) ==
    /\ Running
    /\ IF sprite >= Len(groups) \/ 0 >= Len(groups[sprite + 1].sprites)
       THEN Panic(Call("update_position", sprite, 0, 0, << >>, NoCamera, "panic"))
       ELSE /\ groups' = [groups EXCEPT ![sprite + 1].sprites[1].screen_region = newRegion]
            /\ synced' = Mutated(sprite, groups'[sprite + 1].sprites)
            /\ last' = Call("update_position", sprite, 0, 0, << >>, NoCamera, "ok")
            /\ writes' = << >>
            /\ rpass' = << >>

\* the group platform_move edits
PlatformGroup == 2

\* the amount platform_move adds to sheet_region[0]
PlatformStep == 32

PlatformMove ==
    /\ Running
    /\ IF PlatformGroup >= Len(groups)
       THEN Panic(Call("platform_move", PlatformGroup, 0, 0, << >>, NoCamera, "panic"))
       ELSE /\ \A i \in 1..Len(groups[PlatformGroup + 1].sprites) :
                  groups[PlatformGroup + 1].sprites[i].sheet_region[1] + PlatformStep <= MaxSheetU
            /\ groups' = [groups EXCEPT ![PlatformGroup + 1].sprites =
                              [i \in 1..Len(@) |->
                                  [@[i] EXCEPT !.sheet_region[1] = @ + PlatformStep]]]
            /\ synced' = Mutated(PlatformGroup, groups'[PlatformGroup + 1].sprites)
            /\ last' = Call("platform_move", PlatformGroup, 0, 0, << >>, NoCamera, "ok")
            /\ writes' = << >>
            /\ rpass' = << >>

----------------------------------------------------------------------------
(* Read access *)

\* get_sprites(which) for a registered group
get_sprites(which) == groups[which + 1].sprites

----------------------------------------------------------------------------
(* SpriteRender::render *)

\* `len as u32`: the low 32 bits, taken 16 bits at a time
AsU32(n) == (n % 65536) + 65536 * ((n \div 65536) % 65536)

\* the bind group layouts of the pipeline layout SpriteRender::new builds,
\* in the order of its list: slot k is entry k + 1
PipelineLayout == << "sprite", "texture" >>

\* the loop body binding the texture bind group at slot 0 and the sprite
\* bind group at slot 1
RenderGroupSlotsSwapped(group) ==
    << [cmd |-> "set_bind_group", slot |-> 0, bind_group |-> <<"texture", group.tex_bind_group>>],
       [cmd |-> "set_bind_group", slot |-> 1, bind_group |-> <<"sprite", group.sprite_bind_group>>],
       [cmd |-> "draw", vertices |-> <<0, QuadVertices>>,
        instances |-> <<0, AsU32(Len(group.sprites))>>] >>

\* the loop body drawing a single instance whatever the group holds
RenderGroupSingleInstance(group) ==
    << [cmd |-> "set_bind_group", slot |-> 0, bind_group |-> <<"sprite", group.sprite_bind_group>>],
       [cmd |-> "set_bind_group", slot |-> 1, bind_group |-> <<"texture", group.tex_bind_group>>],
       [cmd |-> "draw", vertices |-> <<0, QuadVertices>>, instances |-> <<0, 1>>] >>

\* the three commands the loop body records for one group
RenderGroup(group) ==
    << [cmd |-> "set_bind_group", slot |-> 0, bind_group |-> <<"sprite", group.sprite_bind_group>>],
       [cmd |-> "set_bind_group", slot |-> 1, bind_group |-> <<"texture", group.tex_bind_group>>],
       [cmd |-> "draw", vertices |-> <<0, QuadVertices>>,
        instances |-> <<0, AsU32(Len(group.sprites))>>] >>

\* the loop walking the registry backwards
RECURSIVE RenderGroupsReversed(_)
RenderGroupsReversed(gs) ==
    IF gs = << >> THEN << >> ELSE RenderGroupsReversed(Tail(gs)) \o RenderGroup(Head(gs))

\* `for group in self.groups.iter()`
RECURSIVE RenderGroups(_)
RenderGroups(gs) ==
    IF gs = << >> THEN << >> ELSE RenderGroup(Head(gs)) \o RenderGroups(Tail(gs))

RenderCommands(gs) == << [cmd |-> "set_pipeline"] >> \o RenderGroups(gs)

\* render that pushes every group's sprites before it draws them
RenderPushing ==
    /\ Running
    /\ rpass' = RenderCommands(groups)
    /\ last' = Call("render", 0, 0, 0, << >>, NoCamera, "ok")
    /\ writes' = [h \in 1..Len(groups) |->
                     [buffer |-> <<"sprite", h - 1>>, offset |-> 0,
                      data |-> CastSlice(groups[h].sprites)]]
    /\ groups' = [h \in 1..Len(groups) |->
                     [groups[h] EXCEPT !.sprite_buffer = CastSlice(groups[h].sprites)]]
    /\ UNCHANGED synced

Render ==
    /\ Running
    /\ rpass' = RenderCommands(groups)
    /\ last' = Call("render", 0, 0, 0, << >>, NoCamera, "ok")
    /\ writes' = << >>
    /\ UNCHANGED <<groups, synced>>

----------------------------------------------------------------------------
(* The renderer under an arbitrary caller *)

\* the sprite count of group `which`, 0 for an index that is not registered
GroupLen(which) == IF which < Len(groups) THEN Len(groups[which + 1].sprites) ELSE 0

\* the sizes of the sequences a caller registers next: a registry holds one
\* group of up to MaxSprites sprites, or up to MaxGroups groups of at most
\* one sprite each
AddableSizes ==
    IF groups = << >> THEN 0..MaxSprites
    ELSE IF \A h \in 1..Len(groups) : Len(groups[h].sprites) <= 1 THEN 0..1
    ELSE {}

\* the ranges a caller passes to refresh_sprites: for a registered group of
\* n sprites every range inside the group, one that ends past it and one
\* whose start exceeds its end
RefreshRanges(which) ==
    IF which < Len(groups)
    THEN { <<lo, hi>> \in (0..GroupLen(which)) \X (0..GroupLen(which)) : lo <= hi }
             \cup { <<0, GroupLen(which) + 1>>, <<1, 0>> }
    ELSE { <<0, 0>> }

\* the caller takes the result of the call and goes on
Return ==
    /\ last # NoCall
    /\ last.outcome = "ok"
    /\ last' = NoCall
    /\ writes' = << >>
    /\ rpass' = << >>
    /\ UNCHANGED <<groups, synced>>

Next ==
    \/ Return /\ UNCHANGED engine
    \/ /\ Running
       /\ \E tex \in Textures, n \in AddableSizes, camera \in Cameras :
              \E failing \in FallibleSteps \cup {"none"} :
                  AddSpriteGroup(tex, InitialSprites(n), camera, failing)
       /\ UNCHANGED engine
    \/ /\ Running
       /\ \E index \in 0..Len(groups), camera \in Cameras : SetCamera(index, camera)
       /\ UNCHANGED engine
    \/ /\ Running
       /\ \E camera \in Cameras : SetCameraAll(camera)
       /\ UNCHANGED engine
    \/ /\ Running
       /\ \E which \in 0..Len(groups) : \E r \in RefreshRanges(which) :
              RefreshSprites(which, r[1], r[2])
       /\ UNCHANGED engine
    \/ /\ Running
       /\ \E which \in 0..Len(groups) : \E index \in 0..GroupLen(which) :
              \E sprite \in EditSprites : GetSpriteMut(which, index, sprite)
       /\ UNCHANGED engine
    \/ /\ Running
       /\ \E which \in 0..Len(groups), sprite \in EditSprites :
              GetAllSpritesMut(which, sprite)
       /\ UNCHANGED engine
    \/ /\ Running
       /\ \E sprite \in 0..Len(groups), newRegion \in Regions :
              UpdatePosition(newRegion, sprite)
       /\ UNCHANGED engine
    \/ PlatformMove /\ UNCHANGED engine
    \/ Render /\ UNCHANGED engine

Spec == Init /\ [][Next]_vars

----------------------------------------------------------------------------
(* Engine::run: start-up, the event loop and the frame *)

\* the statements of the RedrawRequested arm with the submission ahead of
\* the render pass
RedrawArmSubmitFirst ==
    << "update", "next_frame", "get_current_texture", "create_view",
       "create_command_encoder", "submit", "begin_render_pass", "render",
       "end_render_pass", "present", "request_redraw" >>

\* the statements of the RedrawRequested arm with input.next_frame ahead of
\* game.update
RedrawArmNextFrameFirst ==
    << "next_frame", "update", "get_current_texture", "create_view",
       "create_command_encoder", "begin_render_pass", "render",
       "end_render_pass", "submit", "present", "request_redraw" >>

\* the statements of the RedrawRequested arm, in the order of the source
RedrawArm ==
    << "update", "next_frame", "get_current_texture", "create_view",
       "create_command_encoder", "begin_render_pass", "render",
       "end_render_pass", "submit", "present", "request_redraw" >>

\* the statement the frame is at, "none" outside the RedrawRequested arm
Statement == IF engine.pc = 0 THEN "none" ELSE RedrawArm[engine.pc]

\* the statement has run: the frame moves on to the next one
Advance(e) == [e EXCEPT !.trace = Append(@, RedrawArm[e.pc]), !.pc = @ + 1]

\* what the queue keeps of a write_buffer call: the buffer, the offset and
\* the number of bytes
Staged(ws) ==
    [k \in 1..Len(ws) |->
        [buffer |-> ws[k].buffer, offset |-> ws[k].offset, size |-> Len(ws[k].data)]]

\* the state after SpriteRender::new, with game.init about to run
EngineInit ==
    /\ NewSpriteRender
    /\ engine = EngineIn("init")

\* a renderer call has returned to the game
GameResumes ==
    /\ engine.phase \in {"init", "loop"}
    /\ Return
    /\ UNCHANGED engine

\* the textures the game has loaded
GameTextures == { "king", "platform" }

\* the textures of the registered groups
Registered == { groups[h].tex_bind_group.texture : h \in 1..Len(groups) }

\* game.init registers a sprite group for a texture that has none yet
GameInitCall ==
    /\ engine.phase = "init"
    /\ Running
    /\ \E tex \in GameTextures \ Registered, n \in AddableSizes, camera \in Cameras :
           \E failing \in FallibleSteps \cup {"none"} :
               AddSpriteGroup(tex, InitialSprites(n), camera, failing)
    /\ engine' = [engine EXCEPT !.pending = @ \o Staged(writes'),
                                !.phase = IF last'.outcome = "ok" THEN @ ELSE "panicked"]

\* game.init has completed: event_loop.run starts
GameInitReturns ==
    /\ engine.phase = "init"
    /\ Running
    /\ engine' = [engine EXCEPT !.phase = "loop"]
    /\ UNCHANGED sprites_vars

\* the loop is between two events
Idle ==
    /\ engine.phase = "loop"
    /\ engine.pc = 0
    /\ engine.control_flow # "Exit"

\* WGPU::resize: the surface is configured anew, with the size given
WGPUResize(e, size) == [e EXCEPT !.surface = size]

\* the closure is entered with an event: control_flow is set to Wait before
\* the match
Enter(e, ev) == [e EXCEPT !.event = ev, !.control_flow = "Wait", !.flows = << "Wait" >>]

\* WindowEvent::Resized: the surface is reconfigured and a redraw requested
Resized(size) ==
    /\ Idle
    /\ engine' = [WGPUResize(Enter(engine, EventOf("Resized", size)), size)
                      EXCEPT !.redraw_requested = TRUE]
    /\ UNCHANGED sprites_vars

\* a key press that ends the loop
OtherEventExiting(kind) ==
    /\ Idle
    /\ engine' = [Enter(engine, EventOf(kind, NoSize))
                      EXCEPT !.control_flow = "Exit", !.flows = Append(@, "Exit"),
                             !.phase = "exited"]
    /\ UNCHANGED sprites_vars

\* the events of the arms that leave the frame loop alone
OtherEvents == {"KeyboardInput", "Other"}

\* WindowEvent::KeyboardInput, and every event of the `_` arm
OtherEvent(kind) ==
    /\ Idle
    /\ engine' = Enter(engine, EventOf(kind, NoSize))
    /\ UNCHANGED sprites_vars

\* WindowEvent::CloseRequested
CloseRequested ==
    /\ Idle
    /\ engine' = [Enter(engine, EventOf("CloseRequested", NoSize))
                      EXCEPT !.control_flow = "Exit", !.flows = Append(@, "Exit"),
                             !.phase = "exited"]
    /\ UNCHANGED sprites_vars

\* Event::RedrawRequested: the arm is entered, game.update is called
RedrawRequested ==
    /\ Idle
    /\ engine' = [Enter(engine, EventOf("RedrawRequested", NoSize))
                      EXCEPT !.redraw_requested = FALSE,
                             !.pc = 1, !.calls = 0, !.trace = << >>,
                             !.update_writes = << >>, !.pass = << >>,
                             !.submitted = NoSubmission]
    /\ UNCHANGED sprites_vars

\* the renderer calls game.update chooses from
GameUpdateCalls ==
    \/ \E index \in 0..Len(groups), camera \in Cameras : SetCamera(index, camera)
    \/ \E camera \in Cameras : SetCameraAll(camera)
    \/ \E which \in 0..Len(groups) : RefreshSprites(which, 0, GroupLen(which))
    \/ \E sprite \in 0..Len(groups), newRegion \in Regions :
           UpdatePosition(newRegion, sprite)

\* game.update makes a renderer call
GameUpdateCall ==
    /\ engine.phase = "loop"
    /\ Statement = "update"
    /\ engine.calls < MaxUpdateCalls
    /\ Running
    /\ GameUpdateCalls
    /\ engine' = [engine EXCEPT !.calls = @ + 1,
                                !.pending = @ \o Staged(writes'),
                                !.update_writes = @ \o Staged(writes'),
                                !.phase = IF last'.outcome = "ok" THEN @ ELSE "panicked"]

\* game.update returns to the arm
GameUpdateReturns ==
    /\ engine.phase = "loop"
    /\ Statement = "update"
    /\ Running
    /\ engine' = Advance(engine)
    /\ UNCHANGED sprites_vars

\* engine.sprites.render(&mut rpass)
SpritesRender ==
    /\ engine.phase = "loop"
    /\ Statement = "render"
    /\ Render
    /\ engine' = [Advance(engine) EXCEPT !.pass = @ \o rpass']

\* a statement of the arm that runs in the engine itself; `acquired` tells
\* whether get_current_texture yields a texture
EngineStatement(acquired) ==
    /\ engine.phase = "loop"
    /\ Statement \notin {"none", "update", "render"}
    /\ Running
    /\ engine' =
         IF Statement = "get_current_texture" /\ ~acquired
         THEN [engine EXCEPT !.phase = "panicked"]
         ELSE IF Statement = "begin_render_pass"
         THEN [Advance(engine) EXCEPT !.pass = << >>]
         ELSE IF Statement = "submit"
         THEN [Advance(engine) EXCEPT
                   !.submitted = [writes |-> engine.pending, commands |-> engine.pass],
                   !.pending = << >>]
         ELSE IF Statement = "request_redraw"
         THEN [engine EXCEPT !.redraw_requested = TRUE, !.pc = 0, !.calls = 0,
                             !.trace = << >>, !.update_writes = << >>,
                             !.pass = << >>, !.submitted = NoSubmission]
         ELSE Advance(engine)
    /\ UNCHANGED sprites_vars

EngineNext ==
    \/ GameResumes
    \/ GameInitCall
    \/ GameInitReturns
    \/ \E size \in WindowSizes : Resized(size)
    \/ \E kind \in OtherEvents : OtherEvent(kind)
    \/ CloseRequested
    \/ RedrawRequested
    \/ GameUpdateCall
    \/ GameUpdateReturns
    \/ SpritesRender
    \/ \E acquired \in BOOLEAN : EngineStatement(acquired)

EngineSpec == EngineInit /\ [][EngineNext]_vars

\* winit delivers the RedrawRequested event that request_redraw asked for
RedrawDelivered == engine.redraw_requested /\ RedrawRequested

\* the engine with its scheduling: a requested redraw is delivered, and a
\* handler that has been entered runs on to its end
EngineFairSpec ==
    /\ EngineSpec
    /\ WF_vars(RedrawDelivered)
    /\ WF_vars(GameResumes)
    /\ WF_vars(GameUpdateReturns)
    /\ WF_vars(SpritesRender)
    /\ WF_vars(\E acquired \in BOOLEAN : EngineStatement(acquired))

----------------------------------------------------------------------------
(* Reading the GPU side back *)

\* the bytes [i*SpriteSize, (i+1)*SpriteSize) of a sprite buffer, i 0-based
GpuRecord(buf, i) == SubSeq(buf, i * SpriteSize + 1, (i + 1) * SpriteSize)

\* the call that has just ended returned normally
Returned(op) == last.op = op /\ last.outcome = "ok"

\* the camera state of a registry: each group's CPU camera and camera buffer
CameraState(gs) == [h \in 1..Len(gs) |-> <<gs[h].camera, gs[h].buffer_camera>>]

----------------------------------------------------------------------------
(* C1, C2, C3: refresh_sprites and the GPU mirror of the sprites *)

\* C1: immediately after refresh_sprites(h, lo..hi) has returned, the GPU
\* sprite buffer of group h holds, at bytes [lo*32, hi*32), the current CPU
\* values of sprites lo..hi-1.
C1_RefreshWritesRange ==
    Returned("refresh_sprites") =>
        LET sg == groups[last.which + 1]
        IN  \A i \in last.lo..(last.hi - 1) :
                GpuRecord(sg.sprite_buffer, i) = SpriteBytes(sg.sprites[i + 1])

\* C2: partial-update isolation: refresh_sprites(h, lo..hi) leaves every byte
\* of group h's GPU sprite buffer outside [lo*32, hi*32) as it was before
\* the call.
C2_RefreshIsolation ==
    [][ (last'.op = "refresh_sprites" /\ last'.outcome = "ok") =>
            LET old == groups[last'.which + 1].sprite_buffer
                new == groups'[last'.which + 1].sprite_buffer
            IN  /\ Len(new) = Len(old)
                /\ \A b \in 1..Len(old) :
                       (b <= last'.lo * SpriteSize \/ b > last'.hi * SpriteSize)
                           => new[b] = old[b] ]_vars

\* C3: in every reachable state, every sprite that was pushed (by its
\* registration or by a refresh covering it) after its last mutation has a
\* GPU record equal to its CPU mirror record.
C3_SyncedMirrors ==
    \A h \in 1..Len(groups) : \A i \in 1..Len(groups[h].sprites) :
        synced[h][i] =>
            GpuRecord(groups[h].sprite_buffer, i - 1) = SpriteBytes(groups[h].sprites[i])

----------------------------------------------------------------------------
(* C4, C5: registration *)

\* C4: immediately after add_sprite_group(tex, sprites, camera) the new
\* group's GPU sprite buffer is the byte image of `sprites`, record i at byte
\* offset i*32, its GPU camera buffer is the byte image of `camera`, and its
\* CPU mirrors are the arguments.
C4_AddMirrorsArguments ==
    Returned("add_sprite_group") =>
        LET sg == groups[Len(groups)]
        IN  /\ Len(sg.sprite_buffer) = SpriteSize * Len(last.sprites)
            /\ \A i \in 0..(Len(last.sprites) - 1) :
                   GpuRecord(sg.sprite_buffer, i) = SpriteBytes(last.sprites[i + 1])
            /\ sg.buffer_camera = CameraBytes(last.camera)
            /\ sg.sprites = last.sprites
            /\ sg.camera = last.camera

C4_Witness ==
    /\ Returned("add_sprite_group")
    /\ Len(last.sprites) >= 2
    /\ groups[Len(groups)].sprite_buffer # CreateBuffer(SpriteSize * Len(last.sprites))

----------------------------------------------------------------------------
(* C6, C7: the recorded command stream *)

IsDraw(c) == c.cmd = "draw"

\* the draw calls of the recorded pass, in order
Draws == SelectSeq(rpass, IsDraw)

\* C6: each render records, for every registered group, a draw of vertices
\* 0..6 and instances 0..len, len being the group's CPU sprite count.
C6_DrawInstanceCount ==
    Returned("render") =>
        /\ Len(Draws) = Len(groups)
        /\ \A h \in 1..Len(groups) :
               /\ Draws[h].vertices = <<0, 6>>
               /\ Draws[h].instances = <<0, Len(groups[h].sprites)>>

C6_Witness ==
    /\ Returned("render")
    /\ \E h \in 1..Len(groups) : Len(groups[h].sprites) >= 2

\* C7: render records exactly one draw per registered group, in registration
\* order, each immediately preceded by the binds of that same group's sprite
\* bind group and texture bind group.
C7_DrawOrder ==
    Returned("render") =>
        /\ Len(rpass) = 1 + 3 * Len(groups)
        /\ Len(Draws) = Len(groups)
        /\ \A h \in 1..Len(groups) :
               /\ rpass[3 * h - 1].cmd = "set_bind_group"
               /\ rpass[3 * h - 1].bind_group = <<"sprite", [id |-> h - 1]>>
               /\ rpass[3 * h - 1].bind_group[2] = groups[h].sprite_bind_group
               /\ rpass[3 * h].cmd = "set_bind_group"
               /\ rpass[3 * h].bind_group[1] = "texture"
               /\ rpass[3 * h].bind_group[2].id = h - 1
               /\ rpass[3 * h].bind_group[2] = groups[h].tex_bind_group
               /\ rpass[3 * h + 1].cmd = "draw"

C7_Witness ==
    /\ Returned("render")
    /\ Len(groups) = 3
    /\ Len(Draws) = 3

----------------------------------------------------------------------------
(* C8, C9, C10: cameras *)

\* C8: after set_camera(h, c) group h's CPU camera is c and its GPU camera
\* buffer holds the full record c, written at offset 0.
C8_SetCamera ==
    Returned("set_camera") =>
        LET sg == groups[last.which + 1]
        IN  /\ sg.camera = last.camera
            /\ sg.buffer_camera = CameraBytes(last.camera)
            /\ Len(sg.buffer_camera) = CameraSize
            /\ writes = << [buffer |-> <<"camera", last.which>>, offset |-> 0,
                            data |-> CameraBytes(last.camera)] >>

C8_Witness ==
    /\ Returned("set_camera")
    /\ last.which = 1
    /\ groups[1].camera # last.camera

\* set_camera(0, c), set_camera(1, c), ..., set_camera(n - 1, c), one call
\* after the other, on the renderer-and-queue pair st
RECURSIVE SetCameraInOrder(_, _, _)
SetCameraInOrder(st, n, camera) ==
    IF n = 0 THEN st
    ELSE SetCameraOn(SetCameraInOrder(st, n - 1, camera), n - 1, camera)

\* C9: the registry (all CPU cameras and GPU camera buffers included) and the
\* sequence of buffer writes after set_camera_all(c) are those after the
\* calls set_camera(0, c), ..., set_camera(N - 1, c) in that order.
C9_SetCameraAllIsSequence ==
    [][ last'.op = "set_camera_all" =>
            LET st == SetCameraInOrder([groups |-> groups, writes |-> << >>],
                                       Len(groups), last'.camera)
            IN  /\ groups' = st.groups
                /\ writes' = st.writes ]_vars

C9_Witness ==
    /\ Returned("set_camera_all")
    /\ Len(groups) >= 2
    /\ Len(writes) = Len(groups)

\* C10: applying set_camera_all(c) again after set_camera_all(c) leaves every
\* group's CPU camera and GPU camera buffer as the first application left
\* them.
C10_SetCameraAllIdempotent ==
    Returned("set_camera_all") =>
        LET again == SetCameraAllFrom([groups |-> groups, writes |-> << >>],
                                      0, last.camera)
        IN  CameraState(again.groups) = CameraState(groups)

C10_Witness ==
    /\ Returned("set_camera_all")
    /\ Len(groups) = MaxGroups
    /\ \A h \in 1..Len(groups) : groups[h].buffer_camera = CameraBytes(last.camera)

----------------------------------------------------------------------------
(* C11: the sprite buffer holds the whole CPU sequence *)

\* C11: in every reachable state the capacity in bytes of every registered
\* group's GPU sprite buffer is at least 32 times the length of the group's
\* CPU sprite sequence.
C11_BufferHoldsSprites ==
    \A h \in 1..Len(groups) :
        Len(groups[h].sprite_buffer) >= SpriteSize * Len(groups[h].sprites)

C11_Witness ==
    /\ Returned("get_all_sprites_mut")
    /\ Len(groups[1].sprites) = MaxSprites
    /\ Len(groups[1].sprite_buffer) = SpriteSize * MaxSprites

----------------------------------------------------------------------------
(* C12, C13: calls that fail at the call site *)

\* C12: refresh_sprites(h, lo..hi) with h not registered, with hi greater
\* than the sprite count of group h, or with lo > hi fails at the call site:
\* the call does not return, it enqueues no buffer write, and neither the
\* CPU state nor any GPU buffer changes.
C12_RefreshOutOfBounds ==
    [][ ( /\ last'.op = "refresh_sprites"
          /\ \/ last'.which >= Len(groups)
             \/ last'.hi > Len(groups[last'.which + 1].sprites)
             \/ last'.lo > last'.hi )
        => /\ last'.outcome = "panic"
           /\ writes' = << >>
           /\ groups' = groups ]_vars

C12_Witness ==
    /\ last.op = "refresh_sprites"
    /\ last.outcome = "panic"
    /\ last.which < Len(groups)
    /\ last.lo = 0
    /\ last.hi = MaxSprites + 1
    /\ Len(groups[last.which + 1].sprites) = MaxSprites

\* C13: get_sprite_mut(h, i) with h not registered or i not below the sprite
\* count of group h fails and changes no CPU or GPU state; for an in-range
\* (h, i) the reference it returns is to sprite i of group h: a store through
\* it changes that sprite and nothing else.
C13_GetSpriteMut ==
    [][ last'.op = "get_sprite_mut" =>
            IF \/ last'.which >= Len(groups)
               \/ last'.lo >= Len(groups[last'.which + 1].sprites)
            THEN /\ last'.outcome = "panic"
                 /\ groups' = groups
                 /\ writes' = << >>
            ELSE /\ last'.outcome = "ok"
                 /\ groups'[last'.which + 1].sprites[last'.lo + 1] = last'.sprites[1]
                 /\ groups' = [groups EXCEPT
                                  ![last'.which + 1].sprites[last'.lo + 1] = last'.sprites[1]]
                 /\ writes' = << >> ]_vars

\* a failed get_sprite_mut(0, MaxSprites) on a group whose last sprite, and
\* not its first, was stored through get_sprite_mut(0, MaxSprites - 1)
C13_Witness ==
    /\ last.op = "get_sprite_mut"
    /\ last.outcome = "panic"
    /\ last.which = 0
    /\ last.lo = MaxSprites
    /\ Len(groups) >= 1
    /\ Len(groups[1].sprites) = MaxSprites
    /\ groups[1].sprites[MaxSprites] \in EditSprites
    /\ groups[1].sprites[1] \notin EditSprites

----------------------------------------------------------------------------
(* C14, C15, C16: the registry *)

\* C14: add_sprite_group is all-or-nothing with respect to the registry: a
\* call in which a resource creation or an initial buffer write fails ends
\* with the group list exactly as it was, and a call that returns has
\* enqueued both initial writes and appended exactly one group.
C14_AddAllOrNothing ==
    [][ last'.op = "add_sprite_group" =>
            IF last'.outcome = "ok"
            THEN /\ Len(groups') = Len(groups) + 1
                 /\ SubSeq(groups', 1, Len(groups)) = groups
                 /\ Len(writes') = 2
            ELSE groups' = groups ]_vars

\* the call failed in its last fallible step, the upload of the camera, with
\* the upload of the sprites already enqueued and two groups registered
C14_Witness ==
    /\ last.op = "add_sprite_group"
    /\ last.outcome = "panic"
    /\ Len(writes) = 1
    /\ Len(groups) = 2
    /\ last.which = 2

\* C15: add_sprite_group returns to the caller the handle of the group it
\* registered: the number of groups that were registered before the call,
\* which is the index of the new group in the registry.
C15_AddReturnsHandle ==
    Returned("add_sprite_group") =>
        /\ last.result = Handle(Len(groups) - 1)
        /\ last.result = Handle(last.which)

\* the GPU objects a registered group owns, which tell it from every other
GroupIdentity(sg) == <<sg.sprite_bind_group, sg.tex_bind_group>>

\* C16: the registry is append-only and handles are stable: no step makes
\* the number of registered groups smaller, every index that denoted a group
\* before a step denotes the same group after it, a new group takes the next
\* index, and the k-th registered group is the one at index k - 1.
C16_HandlesStable ==
    [][ /\ Len(groups') >= Len(groups)
        /\ Len(groups') <= Len(groups) + 1
        /\ \A h \in 1..Len(groups) : GroupIdentity(groups'[h]) = GroupIdentity(groups[h])
        /\ \A h \in 1..Len(groups') : groups'[h].sprite_bind_group.id = h - 1 ]_vars

\* the third group has been registered, after a store to the first group
C16_Witness ==
    /\ Returned("add_sprite_group")
    /\ Len(groups) = MaxGroups
    /\ last.which = MaxGroups - 1
    /\ groups[1].sprites # << >>
    /\ groups[1].sprites[1] \in EditSprites
    /\ \A h \in 1..Len(groups) : groups[h].tex_bind_group.id = h - 1

----------------------------------------------------------------------------
(* C17: the order of a frame *)

\* the statement a has run in the current frame
HasRun(a) == \E i \in 1..Len(engine.trace) : engine.trace[i] = a

\* in the current frame, b has run only after a
RunsAfter(b, a) ==
    \A j \in 1..Len(engine.trace) :
        engine.trace[j] = b => \E i \in 1..(j - 1) : engine.trace[i] = a

\* u is the tail of v
IsSuffix(u, v) ==
    /\ Len(u) <= Len(v)
    /\ SubSeq(v, Len(v) - Len(u) + 1, Len(v)) = u

\* C17: in every frame of the RedrawRequested arm, render runs after
\* game.update, queue.submit after render and frame.present after
\* queue.submit, each once; every buffer write game.update makes in the frame
\* is staged on the queue ahead of the frame's submission, which flushes it
\* together with the commands render recorded.
C17_FrameOrder ==
    /\ \A i, j \in 1..Len(engine.trace) : i < j => engine.trace[i] # engine.trace[j]
    /\ RunsAfter("render", "update")
    /\ RunsAfter("submit", "render")
    /\ RunsAfter("present", "submit")
    /\ IF HasRun("submit")
       THEN /\ IsSuffix(engine.update_writes, engine.submitted.writes)
            /\ engine.submitted.commands = RenderCommands(groups)
            /\ engine.pending = << >>
       ELSE IsSuffix(engine.update_writes, engine.pending)

\* a frame has been presented in which game.update refreshed a group's
\* sprites and set its camera, and whose submission also flushed the uploads
\* of game.init and drew a group
C17_Witness ==
    /\ HasRun("present")
    /\ Len(engine.update_writes) = 2
    /\ engine.update_writes[1].buffer[1] = "sprite"
    /\ engine.update_writes[2].buffer[1] = "camera"
    /\ Len(engine.submitted.writes) > 2
    /\ Len(engine.submitted.commands) > 1

----------------------------------------------------------------------------
(* C18: the pipeline and the bind group slots *)

IsSetPipeline(c) == c.cmd = "set_pipeline"

\* C18: every render binds the pipeline exactly once, as the first command
\* of the pass, and binds every group's sprite bind group at slot 0 and its
\* texture bind group at slot 1; each bind group goes to the slot that holds
\* its layout in the pipeline layout, [sprite layout, texture layout].
C18_PipelineAndSlots ==
    Returned("render") =>
        /\ Len(SelectSeq(rpass, IsSetPipeline)) = 1
        /\ rpass[1].cmd = "set_pipeline"
        /\ \A k \in 1..Len(rpass) :
               rpass[k].cmd = "set_bind_group" =>
                   /\ rpass[k].slot \in 0..(Len(PipelineLayout) - 1)
                   /\ PipelineLayout[rpass[k].slot + 1] = rpass[k].bind_group[1]
        /\ \A h \in 1..Len(groups) :
               /\ rpass[3 * h - 1] = [cmd |-> "set_bind_group", slot |-> 0,
                                      bind_group |-> <<"sprite", groups[h].sprite_bind_group>>]
               /\ rpass[3 * h] = [cmd |-> "set_bind_group", slot |-> 1,
                                  bind_group |-> <<"texture", groups[h].tex_bind_group>>]

C18_Witness ==
    /\ Returned("render")
    /\ Len(groups) >= 2
    /\ rpass[2].slot = 0
    /\ rpass[6].slot = 1

----------------------------------------------------------------------------
(* C19, C20: what a call leaves alone *)

\* the GPU side of a registry: each group's sprite buffer and camera buffer
GpuState(gs) == [h \in 1..Len(gs) |-> <<gs[h].sprite_buffer, gs[h].buffer_camera>>]

\* the operations that edit sprites in place
EditOps == { "get_sprite_mut", "get_all_sprites_mut", "update_position", "platform_move" }

\* C19: an edit through get_sprite_mut, get_all_sprites_mut, update_position
\* or platform_move changes nothing but CPU sprites: it stages no buffer
\* write and leaves every GPU sprite buffer and every GPU camera buffer, every
\* CPU camera and every bind group as they were; a render that follows
\* changes no buffer either, so it draws from what the last push left.
C19_EditsStayOnCpu ==
    [][ (last'.op \in EditOps \cup {"render"}) =>
            /\ writes' = << >>
            /\ GpuState(groups') = GpuState(groups)
            /\ Len(groups') = Len(groups)
            /\ \A h \in 1..Len(groups) :
                   [groups'[h] EXCEPT !.sprites = groups[h].sprites] = groups[h] ]_vars

\* update_position has moved sprite 0 of a group and the group's GPU buffer
\* still holds the record that was uploaded at registration
C19_Witness ==
    /\ Returned("update_position")
    /\ LET sg == groups[last.which + 1]
       IN  /\ GpuRecord(sg.sprite_buffer, 0) # SpriteBytes(sg.sprites[1])
           /\ GpuRecord(sg.sprite_buffer, 0) = SpriteBytes(InitialSprite(1))
           /\ ~synced[last.which + 1][1]

\* the operations that act on one group, the one the call names
GroupOps == { "add_sprite_group", "set_camera", "refresh_sprites" } \cup EditOps

\* C20: add_sprite_group, set_camera(h, _), refresh_sprites(h, _) and the
\* in-place edits of group h leave every other registered group as it was:
\* its CPU sprites, its CPU camera, its GPU sprite buffer and its GPU camera
\* buffer; add_sprite_group changes no group that was registered, and
\* set_camera(h, _) changes neither the CPU sprites nor the GPU sprite buffer
\* of group h.
C20_GroupIsolation ==
    [][ (last'.op \in GroupOps) =>
            /\ Len(groups') >= Len(groups)
            /\ \A g \in 1..Len(groups) :
                   g # last'.which + 1 => groups'[g] = groups[g]
            /\ (last'.op = "add_sprite_group") => SubSeq(groups', 1, Len(groups)) = groups
            /\ (last'.op = "set_camera" /\ last'.which < Len(groups)) =>
                   /\ groups'[last'.which + 1].sprites = groups[last'.which + 1].sprites
                   /\ groups'[last'.which + 1].sprite_buffer =
                          groups[last'.which + 1].sprite_buffer ]_vars

\* set_camera(0, c) has returned on a renderer whose second group keeps a
\* camera other than c, on the CPU and in its own buffer
C20_Witness ==
    /\ Returned("set_camera")
    /\ last.which = 0
    /\ Len(groups) >= 2
    /\ groups[1].camera = last.camera
    /\ groups[2].camera # last.camera
    /\ groups[2].buffer_camera = CameraBytes(groups[2].camera)
    /\ groups[2].buffer_camera # groups[1].buffer_camera

----------------------------------------------------------------------------
(* C21: render changes nothing but the pass *)

\* C21: render changes no group (CPU sprites, camera, buffers, registry),
\* stages no buffer write, and appends its commands to the pass it is given;
\* when it returns the pass has not been ended and nothing has been
\* submitted: the frame loop does both afterwards.
C21_RenderOnlyRecords ==
    [][ (last'.op = "render" /\ last.op # "render") =>
            /\ groups' = groups
            /\ writes' = << >>
            /\ rpass' = RenderCommands(groups)
            /\ engine'.pass = engine.pass \o rpass'
            /\ engine'.pending = engine.pending
            /\ engine'.submitted = engine.submitted
            /\ engine'.trace = Append(engine.trace, "render")
            /\ \A i \in 1..Len(engine'.trace) :
                   engine'.trace[i] \notin {"end_render_pass", "submit", "present"} ]_vars

\* render has just returned to the frame loop with a draw recorded, the
\* writes of the frame still staged and nothing submitted
C21_Witness ==
    /\ engine.phase = "loop"
    /\ Returned("render")
    /\ Len(engine.pass) > 1
    /\ engine.pending # << >>
    /\ engine.update_writes # << >>
    /\ engine.submitted = NoSubmission
    /\ engine.trace[Len(engine.trace)] = "render"

----------------------------------------------------------------------------
(* C22: the capacities of the buffers *)

\* C22: a registration in which no device or queue step fails is accepted,
\* that of an empty sequence included, and allocates a sprite buffer of
\* exactly 32 x len(sprites) bytes (0 bytes for the empty sequence) and a
\* camera buffer of exactly 16 bytes; every registered group keeps these
\* capacities in every later state.
C22_ExactCapacities ==
    /\ \A h \in 1..Len(groups) :
           /\ Len(groups[h].sprite_buffer) = 32 * Len(groups[h].sprites)
           /\ Len(groups[h].buffer_camera) = 16
    /\ (last.op = "add_sprite_group" /\ last.failing = "none") =>
           /\ last.outcome = "ok"
           /\ Len(groups) = last.which + 1
           /\ Len(groups[Len(groups)].sprite_buffer) = 32 * Len(last.sprites)

----------------------------------------------------------------------------
(* C23: sheet regions *)

\* C23: the caller registers and stores only sprites whose four sheet_region
\* components lie in [0, 1] (InitialSprite and EditSprites do); then in every
\* reachable state, whatever operations of the renderer have run,
\* update_position and platform_move included, all four sheet_region
\* components of every sprite of every group lie in [0, 1].
C23_SheetRegionInUnit ==
    \A h \in 1..Len(groups) : \A i \in 1..Len(groups[h].sprites) :
        \A k \in 1..4 :
            /\ groups[h].sprites[i].sheet_region[k] >= 0
            /\ groups[h].sprites[i].sheet_region[k] <= 1

----------------------------------------------------------------------------
(* C24, C25: the writes of refresh_sprites *)

\* C24: after refresh_sprites(h, 0..n) on a group h of n sprites, whatever
\* edits and partial refreshes came before, the whole GPU sprite buffer of
\* group h is the byte image of the group's current CPU sprite sequence.
C24_FullRefreshResyncs ==
    ( /\ Returned("refresh_sprites")
      /\ last.lo = 0
      /\ last.hi = Len(groups[last.which + 1].sprites) )
    => groups[last.which + 1].sprite_buffer = CastSlice(groups[last.which + 1].sprites)

\* a full refresh of a group of MaxSprites sprites whose last sprite, and
\* not its first, had been stored to
C24_Witness ==
    /\ Returned("refresh_sprites")
    /\ last.lo = 0
    /\ last.hi = MaxSprites
    /\ Len(groups[last.which + 1].sprites) = MaxSprites
    /\ groups[last.which + 1].sprites[MaxSprites] \in EditSprites
    /\ groups[last.which + 1].sprites[1] \notin EditSprites
    /\ GpuRecord(groups[last.which + 1].sprite_buffer, MaxSprites - 1)
           = SpriteBytes(groups[last.which + 1].sprites[MaxSprites])

\* C25: for a group of len sprites and a range s <= e <= len, the write
\* refresh_sprites(h, s..e) issues stays inside the group's sprite buffer:
\* its byte offset plus its byte count is at most the capacity, 32 x len,
\* whether wgpu then accepts the write or not; so does the write the call
\* has staged.
C25_RefreshStaysInside ==
    ( /\ last.op = "refresh_sprites"
      /\ last.which < Len(groups)
      /\ last.lo <= last.hi
      /\ last.hi <= Len(groups[last.which + 1].sprites) )
    => LET sg == groups[last.which + 1]
       IN  /\ Len(sg.sprite_buffer) = 32 * Len(sg.sprites)
           /\ RefreshOffset(last.lo) + Len(RefreshData(last.which, last.lo, last.hi))
                  <= Len(sg.sprite_buffer)
           /\ \A k \in 1..Len(writes) :
                  writes[k].offset + Len(writes[k].data) <= Len(sg.sprite_buffer)

\* refresh_sprites(h, MaxSprites - 1..MaxSprites) has written one record
\* into a buffer of MaxSprites records
C25_Witness ==
    /\ Returned("refresh_sprites")
    /\ last.lo = MaxSprites - 1
    /\ last.hi = MaxSprites
    /\ Len(writes) = 1
    /\ Len(writes[1].data) = SpriteSize
    /\ Len(groups[last.which + 1].sprite_buffer) = SpriteSize * MaxSprites

----------------------------------------------------------------------------
(* C26, C27: cameras *)

\* C26: in every reachable state the GPU camera buffer of every registered
\* group is the byte image of the group's CPU camera.
C26_CameraMirrored ==
    \A h \in 1..Len(groups) : groups[h].buffer_camera = CameraBytes(groups[h].camera)

\* set_camera has just given one of two groups a camera of its own
C26_Witness ==
    /\ Returned("set_camera")
    /\ Len(groups) >= 2
    /\ groups[1].camera # groups[2].camera
    /\ groups[1].buffer_camera # groups[2].buffer_camera
    /\ groups[last.which + 1].buffer_camera = CameraBytes(last.camera)

\* C27: set_camera(h, c) with h not below the number of registered groups
\* fails at the call site, changes no group and stages no write;
\* set_camera_all(c) returns for every number of groups, and on an empty
\* registry it changes nothing and stages no write.
C27_SetCameraOutOfBounds ==
    [][ /\ (last'.op = "set_camera" /\ last'.which >= Len(groups)) =>
               /\ last'.outcome = "panic"
               /\ groups' = groups
               /\ writes' = << >>
        /\ (last'.op = "set_camera_all") =>
               /\ last'.outcome = "ok"
               /\ Len(groups') = Len(groups)
               /\ Len(writes') = Len(groups)
               /\ (groups = << >>) => (groups' = groups /\ writes' = << >>) ]_vars

\* set_camera(2, c) has failed on a registry of two groups, neither of which
\* has the camera c
C27_Witness ==
    /\ last.op = "set_camera"
    /\ last.outcome = "panic"
    /\ Len(groups) = 2
    /\ last.which = 2
    /\ writes = << >>
    /\ \A h \in 1..Len(groups) : groups[h].camera # last.camera

\* the number of times a statement has run in the frame
TimesRun(stmt) == Cardinality({i \in 1..Len(engine.trace) : engine.trace[i] = stmt})

\* where the engine stands in its start-up and in the frame
StartUpOrder ==
    \* SpriteRender::new leaves an empty registry to game.init
    /\ (engine.phase = "init" /\ last.op = "new") => groups = << >>
    \* while game.init runs the event loop has handled no event and
    \* game.update has not been called
    /\ engine.phase = "init" =>
           /\ engine.pc = 0
           /\ engine.trace = << >>
           /\ engine.calls = 0
           /\ engine.control_flow = "Poll"
           /\ ~engine.redraw_requested
    /\ engine.pc > 0 => engine.phase \in {"loop", "panicked"}
    \* game.update runs once in a frame, input.next_frame once and right
    \* after it, and the render comes after both
    /\ TimesRun("update") <= 1
    /\ TimesRun("next_frame") <= 1
    /\ TimesRun("render") <= 1
    /\ Len(engine.trace) >= 1 => engine.trace[1] = "update"
    /\ Len(engine.trace) >= 2 => engine.trace[2] = "next_frame"
    /\ Statement = "render" =>
           (TimesRun("update") = 1 /\ TimesRun("next_frame") = 1)

\* C28: the renderer starts with an empty registry; game.init is entered once
\* and has completed before the event loop handles an event or game.update
\* is called; each RedrawRequested event calls game.update once, then
\* input.next_frame, and both come before that frame's render.
C28_StartUpOrder ==
    [][ /\ StartUpOrder
        /\ StartUpOrder'
        \* game.update makes its renderer calls while it is the statement
        \* of the frame, and it is the first one
        /\ engine'.calls > engine.calls =>
               /\ engine.phase = "loop"
               /\ engine.pc > 0
               /\ RedrawArm[engine.pc] = "update"
               /\ engine.trace = << >>
               /\ engine'.pc = engine.pc
        \* game.init is not entered a second time
        /\ engine'.phase = "init" => engine.phase = "init"
        \* a frame starts with game.update, on a RedrawRequested event of
        \* the running loop, and only there
        /\ (engine.pc = 0 /\ engine'.pc # 0) =>
               /\ engine.phase = "loop"
               /\ engine'.pc = 1
               /\ RedrawArm[engine'.pc] = "update"
               /\ engine'.trace = << >>
        /\ (engine.pc > 0 /\ engine'.pc # engine.pc) =>
               \/ engine'.pc = engine.pc + 1 /\ engine'.trace = Append(engine.trace, RedrawArm[engine.pc])
               \/ engine'.pc = 0 /\ RedrawArm[engine.pc] = "request_redraw" ]_vars

\* a frame in which game.update made its renderer calls on two registered
\* groups has run up to its render
C28_Witness ==
    /\ engine.phase = "loop"
    /\ Returned("render")
    /\ Len(groups) = 2
    /\ engine.update_writes # << >>
    /\ engine.trace[1] = "update"
    /\ engine.trace[2] = "next_frame"
    /\ engine.trace[Len(engine.trace)] = "render"

\* what the closure has left of the event it last handled
EventHandled ==
    /\ engine.event.kind = "none" =>
           (engine.control_flow = "Poll" /\ engine.flows = << >>)
    /\ engine.event.kind # "none" => engine.flows[1] = "Wait"
    /\ engine.event.kind = "CloseRequested" =>
           (engine.flows = << "Wait", "Exit" >> /\ engine.control_flow = "Exit")
    /\ engine.event.kind \notin {"none", "CloseRequested"} =>
           (engine.flows = << "Wait" >> /\ engine.control_flow = "Wait")
    /\ engine.event.kind = "Resized" =>
           (engine.surface = engine.event.size /\ engine.redraw_requested)
    /\ (engine.event.kind = "RedrawRequested" /\ engine.pc = 0) =>
           engine.redraw_requested
    \* between two events of the running loop a CloseRequested can be handled
    /\ Idle => ENABLED CloseRequested

\* a step of the engine, seen from the event loop
HandlerStep ==
    /\ EventHandled
    /\ EventHandled'
    /\ (engine.pc > 0 /\ engine'.pc = 0) =>
           /\ RedrawArm[engine.pc] = "request_redraw"
           /\ engine.pc = Len(RedrawArm)
           /\ engine'.redraw_requested
           /\ engine'.phase = "loop"
    /\ (Idle /\ engine' # engine) =>
           /\ engine'.event.kind \in
                  {"Resized", "RedrawRequested", "CloseRequested"} \cup OtherEvents
           /\ engine'.flows[1] = "Wait"
           /\ engine'.control_flow = "Exit" <=> engine'.event.kind = "CloseRequested"
           /\ engine'.event.kind # "Resized" => engine'.surface = engine.surface
           /\ engine'.event.kind \in OtherEvents =>
                  engine'.redraw_requested = engine.redraw_requested
    /\ engine'.control_flow = "Exit" => engine'.event.kind = "CloseRequested"

\* a requested redraw is followed by the next frame unless the loop is
\* closed first, and a frame that has started requests the next one unless
\* it panics
FramesKeepComing ==
    /\ (engine.phase = "loop" /\ engine.pc = 0 /\ engine.redraw_requested)
           ~> (engine.pc = 1 \/ engine.phase = "exited")
    /\ (engine.phase = "loop" /\ engine.pc = 1)
           ~> (engine.phase = "panicked" \/ (engine.pc = 0 /\ engine.redraw_requested))

\* C29: a RedrawRequested arm that runs to its end has requested another
\* redraw as its last statement, so that frames keep being produced while no
\* close is requested; a Resized event configures the surface to the new size
\* and requests a redraw; every event sets control flow to Wait first;
\* CloseRequested then sets it to Exit, in every state of the running loop,
\* and no other event does.
C29_FrameLoop == [][HandlerStep]_vars /\ FramesKeepComing

\* the loop has been closed after a frame on two groups that requested the
\* next one, on a surface that a Resized event had configured to a new size
C29_Witness ==
    /\ engine.event.kind = "CloseRequested"
    /\ engine.control_flow = "Exit"
    /\ engine.phase = "exited"
    /\ engine.redraw_requested
    /\ engine.surface # InitialSize
    /\ Len(groups) = 2

====
